---------------------------- MODULE Spec2Model ----------------------------
(***************************************************************************)
(* A model of SAC.py: the replay buffer, the action adapters, the SAC      *)
(* agent (construction, select_action, train, save, load) and the training *)
(* loop of main.                                                           *)
(*                                                                         *)
(* Tensors of floats are modelled by binary floating-point numbers with a  *)
(* MantBits-bit significand and round-to-nearest-even, the arithmetic of   *)
(* torch.float / numpy.float32 with a narrower significand and no exponent *)
(* limits (no overflow, no underflow).                                     *)
(***************************************************************************)
EXTENDS Integers, Sequences, FiniteSets, TLC

VARIABLES
    \* Action_adapter / Action_adapter_reverse applied to one action
    max_action, a_agent, act_env, a_back, apc,
    \* the critic and its target (one parameter of each)
    q_critic, q_critic_target,
    \* repeated soft updates: their number, the first target, the claimed bound
    n_soft, target_0, bound_n,
    \* the replay buffer, the transitions added so far, and the indices and
    \* the batch of the last sample
    replay_buffer, added, ind, batch,
    \* the agent: how far its construction got, its hyperparameters, its
    \* parameters, the optimizer steps taken, the requires_grad flags
    status, agent, actor, alpha, reward, beta, steps, requires_grad,
    \* the learning rate each optimizer holds
    optim_lr,
    \* the position inside train(), its locals, what it read, and the steps
    \* it has run in this call
    tpc, r_opt, target_Q, start, used, trace,
    \* the checkpoint files, the last action of the policy, and the number
    \* of calls made by the agent's user
    disk, action_agent, n_ops,
    \* main: opt, the position in the loop, and its local variables; the
    \* steps the environment has taken in the episode, and the flags
    \* (dw, tr) of every step so far
    opt, mpc, total_steps, total_episode, done, state, elapsed_steps, upd_i,
    action_env, steplog

adapterVars == <<max_action, a_agent, act_env, a_back, apc>>

criticVars == <<q_critic, q_critic_target>>

softVars == <<n_soft, target_0, bound_n>>

bufVars == <<replay_buffer, added, ind, batch>>

netVars == <<status, agent, actor, alpha, reward, beta, steps, requires_grad, optim_lr>>

trainVars == <<tpc, r_opt, target_Q, start, used, trace>>

userVars == <<disk, action_agent, n_ops>>

mainVars == <<opt, mpc, total_steps, total_episode, done, state, elapsed_steps, upd_i,
              action_env, steplog>>

vars == <<adapterVars, criticVars, softVars, bufVars, netVars, trainVars, userVars, mainVars>>

\* What each component leaves alone.
notAdapterVars == <<criticVars, softVars, bufVars, netVars, trainVars, userVars, mainVars>>

notSoftVars == <<adapterVars, bufVars, netVars, trainVars, userVars, mainVars>>

notBufVars == <<adapterVars, criticVars, softVars, netVars, trainVars, userVars, mainVars>>

notAgentVars == <<adapterVars, softVars, mainVars>>

None == "None"

-----------------------------------------------------------------------------
(* Floating point: a number is <<m, e>>, standing for m * 2^e, with        *)
(* 2^(MantBits-1) <= |m| < 2^MantBits, or <<0, 0>> for zero.               *)

\* Bits of the significand (24 in float32); the model's precision.
MantBits == 12

RECURSIVE Pow2(_)
Pow2(n) == IF n <= 0 THEN 1 ELSE 2 * Pow2(n - 1)

RECURSIVE BitLen(_)
BitLen(n) == IF n <= 0 THEN 0 ELSE 1 + BitLen(n \div 2)

Abs(n) == IF n < 0 THEN -n ELSE n

Sign(n) == IF n < 0 THEN -1 ELSE IF n > 0 THEN 1 ELSE 0

FZero == <<0, 0>>

Mant(x) == x[1]

Expo(x) == x[2]

\* M / 2^k for M >= 0 and k >= 1, rounded to the nearest integer, ties to even.
RoundShift(M, k) ==
    LET q == M \div Pow2(k)
        r == M % Pow2(k)
        half == Pow2(k - 1)
    IN  IF r > half \/ (r = half /\ q % 2 = 1) THEN q + 1 ELSE q

\* The float nearest to sgn * M * 2^E, M >= 0.
Norm(sgn, M, E) ==
    IF M = 0 THEN FZero
    ELSE LET L == BitLen(M)
         IN  IF L <= MantBits
             THEN <<sgn * M * Pow2(MantBits - L), E - (MantBits - L)>>
             ELSE LET k == L - MantBits
                      q == RoundShift(M, k)
                  IN  IF q = Pow2(MantBits)
                      THEN <<sgn * Pow2(MantBits - 1), E + k + 1>>
                      ELSE <<sgn * q, E + k>>

FromInt(n) == Norm(Sign(n), Abs(n), 0)

FNeg(x) == <<-Mant(x), Expo(x)>>

FAbs(x) == <<Abs(Mant(x)), Expo(x)>>

\* x * y, correctly rounded.
FMul(x, y) ==
    Norm(Sign(Mant(x)) * Sign(Mant(y)), Abs(Mant(x)) * Abs(Mant(y)), Expo(x) + Expo(y))

\* x / y for y # 0, correctly rounded: the quotient of the two significands
\* has MantBits or MantBits + 1 bits, and the remainder decides the rounding.
FDiv(x, y) ==
    IF Mant(x) = 0 THEN FZero
    ELSE LET sgn == Sign(Mant(x)) * Sign(Mant(y))
             d == Abs(Mant(y))
             N == Abs(Mant(x)) * Pow2(MantBits)
             q == N \div d
             rem == N % d
             E == Expo(x) - Expo(y) - MantBits
         IN  IF q >= Pow2(MantBits)
             THEN LET q2 == q \div 2
                      up == (q % 2 = 1) /\ (rem > 0 \/ q2 % 2 = 1)
                  IN  Norm(sgn, IF up THEN q2 + 1 ELSE q2, E + 1)
             ELSE LET up == (2 * rem > d) \/ (2 * rem = d /\ q % 2 = 1)
                  IN  Norm(sgn, IF up THEN q + 1 ELSE q, E)

\* x + y, correctly rounded. When the exponents are more than MantBits + 1
\* apart the smaller operand is below a quarter of the larger one's last place.
FAdd(x, y) ==
    IF Mant(x) = 0 THEN y
    ELSE IF Mant(y) = 0 THEN x
    ELSE LET hi == IF Expo(x) >= Expo(y) THEN x ELSE y
             lo == IF Expo(x) >= Expo(y) THEN y ELSE x
             d == Expo(hi) - Expo(lo)
         IN  IF d > MantBits + 1 THEN hi
             ELSE LET M == Mant(hi) * Pow2(d) + Mant(lo)
                  IN  Norm(Sign(M), Abs(M), Expo(lo))

FSub(x, y) == FAdd(x, FNeg(y))

\* x <= y: rounding keeps the sign of a difference.
FLe(x, y) == Mant(FSub(x, y)) <= 0

\* The float nearest to n / d, for integers |n|, d < 2^MantBits, d > 0.
FromRat(n, d) == FDiv(FromInt(n), FromInt(d))

\* m * 2^e as an integer count of units 2^unit, for unit <= e.
InUnits(x, unit) == Mant(x) * Pow2(Expo(x) - unit)

IsPow2(x) == Abs(Mant(x)) = Pow2(MantBits - 1)

-----------------------------------------------------------------------------
(* Action_adapter and Action_adapter_reverse                               *)

\* Agent actions in [-1, 1]: the sixteenths (exact) and the tenths (rounded).
AgentActions == {FromRat(k, 16) : k \in -16..16} \cup {FromRat(k, 10) : k \in -10..10}

\* float(env.action_space.high[0]) of the environments of EnvName:
\* 2.0 (Pendulum), 1.0 (LunarLander, HalfCheetah, BipedalWalker), 0.4 (Humanoid).
MaxActions == {FromInt(2), FromInt(1), FromRat(4, 10)}

Action_adapter(a, max_a) == FMul(a, max_a)

Action_adapter_reverse_Times(act, max_a) == FMul(act, max_a)

Action_adapter_reverse(act, max_a) == FDiv(act, max_a)

AdapterIdle ==
    /\ max_action = None
    /\ a_agent = None
    /\ act_env = None
    /\ a_back = None
    /\ apc = None

AdapterInit ==
    /\ max_action \in MaxActions
    /\ a_agent \in AgentActions
    /\ act_env = None
    /\ a_back = None
    /\ apc = "agent"

\* action_env = Action_adapter(action_agent, opt.max_action)
AdapterForward ==
    /\ apc = "agent"
    /\ act_env' = Action_adapter(a_agent, max_action)
    /\ apc' = "env"
    /\ UNCHANGED <<max_action, a_agent, a_back, notAdapterVars>>

\* Action_adapter_reverse(action_env, opt.max_action)
AdapterBack ==
    /\ apc = "env"
    /\ a_back' = Action_adapter_reverse(act_env, max_action)
    /\ apc' = "back"
    /\ UNCHANGED <<max_action, a_agent, act_env, notAdapterVars>>

AdapterNext == AdapterForward \/ AdapterBack

\* |a_back - a_agent| <= 3 * 2^(-MantBits) * |a_agent|
WithinRounding(a, b) ==
    LET unit == IF Expo(a) <= Expo(b) THEN Expo(a) ELSE Expo(b)
        D == Abs(InUnits(a, unit) - InUnits(b, unit))
    IN  IF Mant(a) = 0 THEN Mant(b) = 0
        ELSE D * Pow2(MantBits) <= 3 * Abs(InUnits(a, unit))

\* C10 (as stated): the round trip through Action_adapter and
\* Action_adapter_reverse gives back exactly the agent action.
C10_RoundTripExact == apc = "back" => a_back = a_agent

\* C10 (amended): the round trip gives back the agent action up to rounding
\* (relative error at most 3 * 2^-MantBits), exactly when max_action is a
\* power of two, and the environment action lies in [-max_action, max_action].
C10_RoundTripWithinRounding ==
    /\ apc = "back" => /\ WithinRounding(a_agent, a_back)
                       /\ IsPow2(max_action) => a_back = a_agent
    /\ apc \in {"env", "back"} => /\ FLe(act_env, max_action)
                                  /\ FLe(FNeg(max_action), act_env)

\* A round trip that rounding changed, within the tolerance.
C10_Witness ==
    /\ apc = "back"
    /\ a_back # a_agent
    /\ WithinRounding(a_agent, a_back)
    /\ FLe(FAbs(act_env), max_action)

-----------------------------------------------------------------------------
(* The target network's soft update                                        *)

\* self.tau = 0.005, and (1 - self.tau), as floats
tau == FromRat(5, 1000)

one_minus_tau == FromRat(995, 1000)

SoftUpdate_Swapped(param, target_param) ==
    FAdd(FMul(one_minus_tau, param), FMul(tau, target_param))

SoftUpdate_Minus(param, target_param) ==
    FSub(FMul(tau, param), FMul(one_minus_tau, target_param))

\* target_param.data.copy_(self.tau * param.data + (1 - self.tau) * target_param.data)
SoftUpdate(param, target_param) ==
    FAdd(FMul(tau, param), FMul(one_minus_tau, target_param))

\* Repetitions of the soft update with the online critic held fixed.
MaxSoft == 8

\* Parameter values, between 1 and 2 in size, of both signs, some close together.
ParamVals ==
    {FromRat(k, 4) : k \in {-7, -4, 4, 5, 7}} \cup {FromRat(k, 1024) : k \in {1279, 1280, 1281}}

\* Distances are counted in units of 2^-(MantBits + 8).
FineUnit == 0 - (MantBits + 8)

Fine(x) == InUnits(x, FineUnit)

Dist(x, y) == Abs(Fine(x) - Fine(y))

\* (1 - tau) * b = 199/200 * b, rounded up to a whole unit.
Shrink(b) == (199 * b + 199) \div 200

SoftIdle ==
    /\ n_soft = None
    /\ target_0 = None
    /\ bound_n = None

SoftInit ==
    /\ q_critic \in ParamVals
    /\ q_critic_target \in ParamVals
    /\ n_soft = 0
    /\ target_0 = q_critic_target
    /\ bound_n = Dist(q_critic_target, q_critic)

SoftStep ==
    /\ n_soft < MaxSoft
    /\ q_critic_target' = SoftUpdate(q_critic, q_critic_target)
    /\ n_soft' = n_soft + 1
    /\ bound_n' = Shrink(bound_n)
    /\ UNCHANGED <<q_critic, target_0, notSoftVars>>

SoftNext == SoftStep

\* 4 * n * 2^-MantBits * max(|online|, |target_0|), in units, less the n units
\* by which bound_n may exceed (1 - tau)^n * ||target_0 - online||.
SoftTolerance ==
    LET M == IF Abs(Fine(q_critic)) >= Abs(Fine(target_0))
             THEN Abs(Fine(q_critic)) ELSE Abs(Fine(target_0))
    IN  (4 * n_soft * M) \div Pow2(MantBits) - n_soft

\* C9 (as stated): after n soft updates with the online parameters fixed,
\* ||target_n - online|| <= (1 - tau)^n * ||target_0 - online||.
C9_ContractionExact == Dist(q_critic_target, q_critic) <= bound_n

\* C9 (amended): the bound holds up to the rounding of the n updates,
\* ||target_n - online|| <= (1 - tau)^n * ||target_0 - online||
\*                          + 4 * n * 2^-MantBits * max(|online|, |target_0|).
C9_ContractionWithinRounding ==
    Dist(q_critic_target, q_critic) <= bound_n + SoftTolerance

\* Updates have run, the target has moved towards the online parameters, and
\* rounding has left it above the exact bound.
C9_Witness ==
    /\ n_soft = MaxSoft
    /\ q_critic_target # target_0
    /\ Dist(q_critic_target, q_critic) < Dist(target_0, q_critic)
    /\ Dist(q_critic_target, q_critic) > bound_n

-----------------------------------------------------------------------------
(* ReplayBuffer                                                            *)

\* A tensor of max_size rows made by torch.zeros: the rows written so far,
\* every other row reading as zero.
Zeros == [i \in {} |-> 0]

Row(tensor, i, zero) == IF i \in DOMAIN tensor THEN tensor[i] ELSE zero

SetRow(tensor, i, v) == [j \in DOMAIN tensor \cup {i} |-> IF j = i THEN v ELSE tensor[j]]

Min(x, y) == IF x <= y THEN x ELSE y

\* ReplayBuffer.__init__
ReplayBuffer(max_size) ==
    [max_size |-> max_size, ptr |-> 0, size |-> 0,
     s |-> Zeros, a |-> Zeros, r |-> Zeros, s_next |-> Zeros, dw |-> Zeros]

ReplayBuffer_add_NoSaturation(rb, t) ==
    [rb EXCEPT !.s = SetRow(rb.s, rb.ptr, t.s),
               !.a = SetRow(rb.a, rb.ptr, t.a),
               !.r = SetRow(rb.r, rb.ptr, t.r),
               !.s_next = SetRow(rb.s_next, rb.ptr, t.s_next),
               !.dw = SetRow(rb.dw, rb.ptr, t.dw),
               !.ptr = (rb.ptr + 1) % rb.max_size,
               !.size = rb.size + 1]

ReplayBuffer_add_AtSize(rb, t) ==
    [rb EXCEPT !.s = SetRow(rb.s, rb.size % rb.max_size, t.s),
               !.a = SetRow(rb.a, rb.size % rb.max_size, t.a),
               !.r = SetRow(rb.r, rb.size % rb.max_size, t.r),
               !.s_next = SetRow(rb.s_next, rb.size % rb.max_size, t.s_next),
               !.dw = SetRow(rb.dw, rb.size % rb.max_size, t.dw),
               !.ptr = (rb.ptr + 1) % rb.max_size,
               !.size = Min(rb.size + 1, rb.max_size)]

\* ReplayBuffer.add
ReplayBuffer_add(rb, t) ==
    [rb EXCEPT !.s = SetRow(rb.s, rb.ptr, t.s),
               !.a = SetRow(rb.a, rb.ptr, t.a),
               !.r = SetRow(rb.r, rb.ptr, t.r),
               !.s_next = SetRow(rb.s_next, rb.ptr, t.s_next),
               !.dw = SetRow(rb.dw, rb.ptr, t.dw),
               !.ptr = (rb.ptr + 1) % rb.max_size,
               !.size = Min(rb.size + 1, rb.max_size)]

RandInt_Inclusive(low, high, n) == [1..n -> low..high]

\* torch.randint(low, high, size=(n,)): n integers of [low, high)
RandInt(low, high, n) == [1..n -> low..(high - 1)]

\* self.s[ind], self.a[ind], self.r[ind], self.s_next[ind], self.dw[ind]
Gather(rb, idx) ==
    [s |-> [k \in DOMAIN idx |-> Row(rb.s, idx[k], 0)],
     a |-> [k \in DOMAIN idx |-> Row(rb.a, idx[k], 0)],
     r |-> [k \in DOMAIN idx |-> Row(rb.r, idx[k], 0)],
     s_next |-> [k \in DOMAIN idx |-> Row(rb.s_next, idx[k], 0)],
     dw |-> [k \in DOMAIN idx |-> Row(rb.dw, idx[k], FALSE)]]

\* Capacities, calls of add, and batch sizes of the buffer on its own.
MaxCapacity == 2

MaxAdds == 4

MaxBatch == 2

\* The transitions handed to add; none is the all-zero row of a fresh buffer.
Transitions ==
    {[s |-> 1, a |-> 1, r |-> 1, s_next |-> 2, dw |-> FALSE],
     [s |-> 2, a |-> 2, r |-> 0, s_next |-> 3, dw |-> FALSE],
     [s |-> 3, a |-> 1, r |-> 2, s_next |-> 1, dw |-> TRUE]}

\* No sample drawn: no indices, an empty batch.
NoBatch == [s |-> <<>>, a |-> <<>>, r |-> <<>>, s_next |-> <<>>, dw |-> <<>>]

BufIdle ==
    /\ replay_buffer = None
    /\ added = <<>>
    /\ ind = <<>>
    /\ batch = NoBatch

BufInit ==
    /\ \E max_size \in 1..MaxCapacity : replay_buffer = ReplayBuffer(max_size)
    /\ added = <<>>
    /\ ind = <<>>
    /\ batch = NoBatch

BufAdd ==
    /\ Len(added) < MaxAdds
    /\ \E t \in Transitions :
          /\ replay_buffer' = ReplayBuffer_add(replay_buffer, t)
          /\ added' = Append(added, t)
    /\ UNCHANGED <<ind, batch, notBufVars>>

\* sample(batch_size); torch.randint raises when size is 0.
BufSample ==
    /\ replay_buffer.size >= 1
    /\ \E batch_size \in 1..MaxBatch :
          \E idx \in RandInt(0, replay_buffer.size, batch_size) :
             /\ ind' = idx
             /\ batch' = Gather(replay_buffer, idx)
    /\ UNCHANGED <<replay_buffer, added, notBufVars>>

BufNext == BufAdd \/ BufSample

\* Row i of the five tensors, as one transition.
Stored(rb, i) ==
    [s |-> Row(rb.s, i, 0), a |-> Row(rb.a, i, 0), r |-> Row(rb.r, i, 0),
     s_next |-> Row(rb.s_next, i, 0), dw |-> Row(rb.dw, i, FALSE)]

\* Element k of a batch, as one transition.
Sampled(b, k) ==
    [s |-> b.s[k], a |-> b.a[k], r |-> b.r[k], s_next |-> b.s_next[k], dw |-> b.dw[k]]

C1_Inv ==
    LET n == Len(added)
        C == replay_buffer.max_size
    IN  /\ 0 <= replay_buffer.ptr /\ replay_buffer.ptr < C
        /\ 0 <= replay_buffer.size /\ replay_buffer.size <= C
        /\ replay_buffer.size = Min(n, C)
        /\ replay_buffer.ptr = n % C
        /\ n < MaxAdds => ENABLED BufAdd

\* C1: after n calls of add on a buffer of capacity C >= 1, 0 <= ptr < C,
\* 0 <= size <= C, size = min(n, C) and ptr = n mod C; add can always be
\* called, and no step makes size smaller.
C1_BufferInvariant ==
    /\ []C1_Inv
    /\ [][replay_buffer'.size >= replay_buffer.size]_vars

\* More adds than the capacity, with the cursor wrapped into the buffer.
C1_Witness ==
    /\ Len(added) > replay_buffer.max_size
    /\ replay_buffer.size = replay_buffer.max_size
    /\ replay_buffer.ptr = 1

C2_Inv ==
    LET n == Len(added)
        C == replay_buffer.max_size
    IN  n >= C =>
          /\ replay_buffer.size = C
          /\ \A j \in (n - C + 1)..n : Stored(replay_buffer, (j - 1) % C) = added[j]

C2_Step ==
    LET n == Len(added)
        C == replay_buffer.max_size
    IN  (replay_buffer.size = C /\ added' # added) =>
          /\ Stored(replay_buffer, replay_buffer.ptr) = added[n - C + 1]
          /\ Stored(replay_buffer', replay_buffer.ptr) = added'[n + 1]
          /\ \A i \in 0..(C - 1) :
                i # replay_buffer.ptr => Stored(replay_buffer', i) = Stored(replay_buffer, i)

\* C2: once capacity + k transitions (k > 0) were added, size = capacity and
\* the rows are exactly the last `capacity` transitions added; an add on a
\* full buffer replaces the oldest stored transition and no other row.
C2_Wraparound ==
    /\ []C2_Inv
    /\ [][C2_Step]_vars

\* Capacity 2 after 4 adds: both rows were overwritten once.
C2_Witness ==
    /\ replay_buffer.max_size = 2
    /\ Len(added) = 4
    /\ added[1] # added[3]
    /\ Stored(replay_buffer, 0) = added[3]
    /\ Stored(replay_buffer, 1) = added[4]

C3_Step ==
    LET n == Len(added)
        C == replay_buffer.max_size
    IN  (<<ind, batch>>' # <<ind, batch>>) =>
          /\ UNCHANGED <<replay_buffer, added>>
          /\ \A k \in DOMAIN ind' :
                /\ ind'[k] \in 0..(replay_buffer.size - 1)
                /\ \E j \in 1..n :
                      /\ j > n - replay_buffer.size
                      /\ (j - 1) % C = ind'[k]
                      /\ Sampled(batch', k) = added[j]

\* C3: every element of a sampled batch is, field for field, one transition
\* that was added and is still stored, at an index of [0, size); sampling
\* changes nothing of the buffer.
C3_SampleStored == [][C3_Step]_vars

\* A batch of two different rows, drawn after the buffer wrapped.
C3_Witness ==
    /\ batch # NoBatch
    /\ Len(added) > replay_buffer.max_size
    /\ DOMAIN ind = 1..2
    /\ ind[1] # ind[2]
    /\ Sampled(batch, 1) = Stored(replay_buffer, ind[1])
    /\ Sampled(batch, 2) = Stored(replay_buffer, ind[2])
    /\ Sampled(batch, 1) # Sampled(batch, 2)

-----------------------------------------------------------------------------
(* SAC_countinuous.__init__                                                *)

\* (train_std, eval_std) in hundredths: a zero of either, equal ones, those
\* of the script (0.3 against 0.1), and two pairs one hundredth apart.
StdPairs == {<<0, 10>>, <<10, 0>>, <<10, 10>>, <<30, 10>>, <<114, 115>>, <<155, 156>>}

\* ln 2 in units of 2^-24
Ln2 == 11629080

\* 1 + w/3 + w^2/5 + w^3/7 + w^4/9 in units of 2^-18, for w = z^2 in the
\* same units: atanh(z) / z.
AtanhSeries(w) ==
    LET w2 == (w * w) \div Pow2(18)
        w3 == (w2 * w) \div Pow2(18)
        w4 == (w3 * w) \div Pow2(18)
    IN  Pow2(18) + w \div 3 + w2 \div 5 + w3 \div 7 + w4 \div 9

\* math.log(x) for x > 0, within one unit in the last place: x = y * 2^k
\* with 3/4 <= y < 3/2, ln y = 2 * atanh((y - 1) / (y + 1)).
Log(x) ==
    LET a == Mant(x)
        b1 == Pow2(MantBits - 1)
        big == 2 * a >= 3 * b1
        b == IF big THEN 2 * b1 ELSE b1
        k == Expo(x) + MantBits - 1 + (IF big THEN 1 ELSE 0)
        p == a - b
        q == a + b
        z == (Abs(p) * Pow2(16)) \div q
        S == AtanhSeries((z * z) \div Pow2(14))
        N == Abs(p) * S
    IN  IF k = 0
        THEN IF p = 0 THEN FZero
             ELSE LET sh == 30 - BitLen(N)
                      N2 == N * Pow2(sh)
                      sticky == IF N2 % q > 0 THEN 1 ELSE 0
                  IN  Norm(Sign(p), 2 * (N2 \div q) + sticky, 0 - 18 - sh)
        ELSE LET l24 == (N \div q) * 128 + ((N % q) * 128) \div q
                 T == k * Ln2 + Sign(p) * l24
             IN  Norm(Sign(T), Abs(T), -24)

\* self.delta = 0.5*(eval_var / train_var + math.log(train_var / eval_var) - 1)
\* for variances that are not zero
Delta(train_var, eval_var) ==
    FMul(FromRat(1, 2),
         FSub(FAdd(FDiv(eval_var, train_var), Log(FDiv(train_var, eval_var))),
              FromInt(1)))

\* self.train_std ** 2
Square(std) == FMul(std, std)

AssertDelta_Off(delta) == TRUE

\* assert self.delta >= 0
AssertDelta(delta) == Mant(delta) >= 0

\* The parameters a critic is created with or stepped to.
CriticVals == {FromRat(4, 4), FromRat(5, 4)}

\* batch_size
AgentBatch == 1

\* max_size=int(1e6)
BufferCapacity == 1000000

\* for _ in range(10)
DualSteps == 10

\* No network yet, and no attribute delta.
NoNet == <<>>

NoDelta == <<>>

\* The keyword arguments __init__ is called with, vars(opt), with the
\* standard deviations in hundredths.
Kwargs(robust, adaptive_alpha, stds, rtype, batch_size) ==
    [robust |-> robust, adaptive_alpha |-> adaptive_alpha,
     train_std |-> FromRat(stds[1], 100), eval_std |-> FromRat(stds[2], 100),
     rtype |-> rtype, batch_size |-> batch_size,
     a_lr |-> FromRat(3, 100000), c_lr |-> FromRat(1, 10000),
     b_lr |-> FromRat(3, 100000), r_lr |-> FromRat(3, 100000),
     delta |-> NoDelta]

\* Those of the agents built on their own.
AgentKwargs ==
    {Kwargs(TRUE, ad, p, "continuous", AgentBatch) : ad \in BOOLEAN, p \in StdPairs}
    \cup {Kwargs(TRUE, TRUE, <<30, 10>>, "discrete", AgentBatch)}
    \cup {Kwargs(FALSE, ad, <<30, 10>>, "discrete", AgentBatch) : ad \in BOOLEAN}

NoFile == [saved |-> FALSE, actor |-> 0, q_critic |-> FZero]

NoSteps == [actor |-> 0, q_critic |-> 0, alpha |-> 0, reward |-> 0, beta |-> 0, target |-> 0]

NoStart == [steps |-> NoSteps, q_critic_target |-> FZero]

\* No optimizer, or no step of it yet.
NoLr == <<>>

NoOptim ==
    [actor_optimizer |-> NoLr, q_critic_optimizer |-> NoLr, alpha_optim |-> NoLr,
     reward_optimizer |-> NoLr, beta_optimizer |-> NoLr]

NoUsed ==
    [target_actor |-> 0, aloss_critic |-> 0, critic_post |-> FZero,
     actor_lr |-> NoLr, critic_lr |-> NoLr, alpha_lr |-> NoLr]

\* Before __init__ runs.
Unconstructed ==
    /\ status = "new"
    /\ actor = None /\ alpha = None /\ reward = None /\ beta = None
    /\ q_critic = NoNet /\ q_critic_target = NoNet
    /\ steps = NoSteps
    /\ requires_grad = [q_critic |-> FALSE, q_critic_target |-> FALSE]
    /\ optim_lr = NoOptim
    /\ replay_buffer = None /\ added = <<>> /\ ind = <<>> /\ batch = NoBatch
    /\ tpc = "idle" /\ r_opt = <<>> /\ target_Q = <<>>
    /\ start = NoStart /\ used = NoUsed /\ trace = <<>>
    /\ disk = NoFile
    /\ action_agent = [src |-> "none"]
    /\ n_ops = 0

AgentNew == agent \in AgentKwargs /\ Unconstructed

\* __init__ up to self.tau = 0.005: the radius delta of the robust mode.
InitDelta ==
    /\ status = "new"
    /\ \/ /\ ~agent.robust
          /\ agent' = agent
       \/ /\ agent.robust
          /\ LET train_var == Square(agent.train_std)
                 eval_var == Square(agent.eval_std)
             IN  /\ Mant(train_var) # 0 /\ Mant(eval_var) # 0
                 /\ AssertDelta(Delta(train_var, eval_var))
                 /\ agent' = [agent EXCEPT !.delta = Delta(train_var, eval_var)]
    /\ status' = "delta"
    /\ UNCHANGED <<optim_lr, actor, alpha, reward, beta, steps, requires_grad>>
    /\ UNCHANGED <<criticVars, bufVars, trainVars, userVars, notAgentVars>>

\* eval_var / train_var or train_var / eval_var divides by zero.
InitZeroDivision ==
    /\ status = "new"
    /\ agent.robust
    /\ Mant(Square(agent.train_std)) = 0 \/ Mant(Square(agent.eval_std)) = 0
    /\ status' = "ZeroDivisionError"
    /\ UNCHANGED <<optim_lr, agent, actor, alpha, reward, beta, steps, requires_grad>>
    /\ UNCHANGED <<criticVars, bufVars, trainVars, userVars, notAgentVars>>

\* assert self.delta >= 0 fails.
InitAssertion ==
    /\ status = "new"
    /\ agent.robust
    /\ LET train_var == Square(agent.train_std)
           eval_var == Square(agent.eval_std)
       IN  /\ Mant(train_var) # 0 /\ Mant(eval_var) # 0
           /\ ~AssertDelta(Delta(train_var, eval_var))
    /\ status' = "AssertionError"
    /\ UNCHANGED <<optim_lr, agent, actor, alpha, reward, beta, steps, requires_grad>>
    /\ UNCHANGED <<criticVars, bufVars, trainVars, userVars, notAgentVars>>

SetRequiresGrad_Skip(flags, net, value) == flags

\* for p in net.parameters(): p.requires_grad = value
SetRequiresGrad(flags, net, value) == [flags EXCEPT ![net] = value]

StepLr_Attribute(optimizer_lr, attribute_lr) == attribute_lr

\* The learning rate of optimizer.step(): the one the optimizer was given
\* when it was created, whatever the agent's attribute is now.
StepLr(optimizer_lr, attribute_lr) == optimizer_lr

\* The rest of __init__: the networks, their optimizers, the target critic,
\* the reward model and the dual variable (robust), the replay buffer and
\* log_alpha (adaptive).
InitNetworks ==
    /\ status = "delta"
    /\ actor' = 0
    /\ \E c \in CriticVals :
          /\ q_critic' = c
          /\ q_critic_target' = c
    /\ requires_grad' = SetRequiresGrad([q_critic |-> TRUE, q_critic_target |-> TRUE],
                                        "q_critic_target", FALSE)
    /\ reward' = IF agent.robust THEN 0 ELSE None
    /\ beta' = IF agent.robust THEN 0 ELSE None
    /\ replay_buffer' = ReplayBuffer(BufferCapacity)
    /\ alpha' = 0
    /\ optim_lr' = [actor_optimizer |-> agent.a_lr,
                    q_critic_optimizer |-> agent.c_lr,
                    reward_optimizer |-> IF agent.robust THEN agent.r_lr ELSE NoLr,
                    beta_optimizer |-> IF agent.robust THEN agent.b_lr ELSE NoLr,
                    alpha_optim |-> IF agent.adaptive_alpha THEN agent.c_lr ELSE NoLr]
    /\ status' = "ready"
    /\ UNCHANGED <<agent, steps, added, ind, batch>>
    /\ UNCHANGED <<trainVars, userVars, notAgentVars>>

-----------------------------------------------------------------------------
(* SAC_countinuous.train                                                   *)

\* The position after the batch is drawn, and after each update.
AfterSample == IF agent.robust THEN "r_net" ELSE "q_net"

AfterCritic_SkipActor == IF agent.adaptive_alpha THEN "alpha" ELSE "target"

AfterCritic == "freeze"

AfterActor == IF agent.adaptive_alpha THEN "alpha" ELSE "target"

\* (~dw)
NotDw(dw) == ~dw

\* s, a, r, s_next, dw = self.replay_buffer.sample(self.batch_size);
\* torch.randint raises on an empty buffer.
TrainBegin ==
    /\ status = "ready"
    /\ tpc = "idle"
    /\ replay_buffer.size >= 1
    /\ \E idx \in RandInt(0, replay_buffer.size, agent.batch_size) :
          /\ ind' = idx
          /\ batch' = Gather(replay_buffer, idx)
    /\ tpc' = AfterSample
    /\ start' = [steps |-> steps, q_critic_target |-> q_critic_target]
    /\ used' = NoUsed
    /\ trace' = <<"sample">>
    /\ UNCHANGED <<r_opt, target_Q, replay_buffer, added, netVars, criticVars>>

\* Update R Net: one step of reward_optimizer on the regression loss.
TrainRNet ==
    /\ tpc = "r_net"
    /\ agent.rtype = "continuous"
    /\ reward' = steps.reward + 1
    /\ steps' = [steps EXCEPT !.reward = @ + 1]
    /\ trace' = Append(trace, "reward")
    /\ tpc' = "dual"
    /\ UNCHANGED <<optim_lr, status, agent, actor, alpha, beta, requires_grad>>
    /\ UNCHANGED <<r_opt, target_Q, start, used>>
    /\ UNCHANGED <<criticVars, bufVars, userVars, notAgentVars>>

\* self.reward(s, a) of a reward model that is not continuous subscripts
\* a layer: the TypeError ends train() and is not caught.
TrainRaise ==
    /\ tpc = "r_net"
    /\ agent.rtype # "continuous"
    /\ status' = "TypeError"
    /\ tpc' = "raised"
    /\ UNCHANGED <<optim_lr, agent, actor, alpha, reward, beta, steps, requires_grad>>
    /\ UNCHANGED <<r_opt, target_Q, start, used, trace>>
    /\ UNCHANGED <<criticVars, bufVars, userVars, notAgentVars>>

\* r_sample, the ten steps of beta_optimizer, and r_opt = dual_func(...)
TrainDual ==
    /\ tpc = "dual"
    /\ beta' = steps.beta + DualSteps
    /\ steps' = [steps EXCEPT !.beta = @ + DualSteps]
    /\ r_opt' = [k \in DOMAIN ind |->
                   [src |-> "r_opt", reward |-> reward, beta |-> beta',
                    delta |-> agent.delta]]
    /\ trace' = Append(trace, "dual")
    /\ tpc' = "q_net"
    /\ UNCHANGED <<optim_lr, status, agent, actor, alpha, reward, requires_grad>>
    /\ UNCHANGED <<target_Q, start, used>>
    /\ UNCHANGED <<criticVars, bufVars, userVars, notAgentVars>>

TargetReward_Raw(robust, r_opt_k, r_k) == [src |-> "r", value |-> r_k]

\* The reward term of target_Q: r_opt if self.robust, else r.
TargetReward(robust, r_opt_k, r_k) ==
    IF robust THEN r_opt_k ELSE [src |-> "r", value |-> r_k]

\* Update Q Net: the Bellman target from the actor, the target critic and
\* alpha, then one step of q_critic_optimizer.
TrainCritic ==
    /\ tpc = "q_net"
    /\ target_Q' = [k \in DOMAIN ind |->
                      [r |-> TargetReward(agent.robust,
                                          IF agent.robust THEN r_opt[k] ELSE None,
                                          batch.r[k]),
                       not_dw |-> NotDw(batch.dw[k]),
                       q_critic_target |-> q_critic_target,
                       actor |-> actor,
                       alpha |-> alpha]]
    /\ \E c \in CriticVals : q_critic' = c
    /\ steps' = [steps EXCEPT !.q_critic = @ + 1]
    /\ used' = [used EXCEPT !.target_actor = steps.actor, !.critic_post = q_critic',
                            !.critic_lr = StepLr(optim_lr.q_critic_optimizer, agent.c_lr)]
    /\ trace' = Append(trace, "critic")
    /\ tpc' = AfterCritic
    /\ UNCHANGED <<optim_lr, status, agent, actor, alpha, reward, beta, requires_grad>>
    /\ UNCHANGED <<q_critic_target, r_opt, start>>
    /\ UNCHANGED <<bufVars, userVars, notAgentVars>>

\* for params in self.q_critic.parameters(): params.requires_grad = False
TrainFreeze ==
    /\ tpc = "freeze"
    /\ requires_grad' = SetRequiresGrad(requires_grad, "q_critic", FALSE)
    /\ tpc' = "actor"
    /\ UNCHANGED <<optim_lr, status, agent, actor, alpha, reward, beta, steps>>
    /\ UNCHANGED <<r_opt, target_Q, start, used, trace>>
    /\ UNCHANGED <<criticVars, bufVars, userVars, notAgentVars>>

\* Update Actor Net: the loss from the critic as it is now, one step of
\* actor_optimizer.
TrainActor ==
    /\ tpc = "actor"
    /\ actor' = steps.actor + 1
    /\ steps' = [steps EXCEPT !.actor = @ + 1]
    /\ used' = [used EXCEPT !.aloss_critic = steps.q_critic,
                            !.actor_lr = StepLr(optim_lr.actor_optimizer, agent.a_lr)]
    /\ trace' = Append(trace, "actor")
    /\ tpc' = "unfreeze"
    /\ UNCHANGED <<optim_lr, status, agent, alpha, reward, beta, requires_grad>>
    /\ UNCHANGED <<r_opt, target_Q, start>>
    /\ UNCHANGED <<criticVars, bufVars, userVars, notAgentVars>>

\* for params in self.q_critic.parameters(): params.requires_grad = True
TrainUnfreeze ==
    /\ tpc = "unfreeze"
    /\ requires_grad' = SetRequiresGrad(requires_grad, "q_critic", TRUE)
    /\ tpc' = AfterActor
    /\ UNCHANGED <<optim_lr, status, agent, actor, alpha, reward, beta, steps>>
    /\ UNCHANGED <<r_opt, target_Q, start, used, trace>>
    /\ UNCHANGED <<criticVars, bufVars, userVars, notAgentVars>>

\* Update alpha: one step of alpha_optim, self.alpha = self.log_alpha.exp()
TrainAlpha ==
    /\ tpc = "alpha"
    /\ alpha' = steps.alpha + 1
    /\ steps' = [steps EXCEPT !.alpha = @ + 1]
    /\ used' = [used EXCEPT !.alpha_lr = StepLr(optim_lr.alpha_optim, agent.c_lr)]
    /\ trace' = Append(trace, "alpha")
    /\ tpc' = "target"
    /\ UNCHANGED <<optim_lr, status, agent, actor, reward, beta, requires_grad>>
    /\ UNCHANGED <<r_opt, target_Q, start>>
    /\ UNCHANGED <<criticVars, bufVars, userVars, notAgentVars>>

\* Update Target Net, and the return of train(): its locals are gone.
TrainTarget ==
    /\ tpc = "target"
    /\ q_critic_target' = SoftUpdate(q_critic, q_critic_target)
    /\ steps' = [steps EXCEPT !.target = @ + 1]
    /\ tpc' = "idle"
    /\ ind' = <<>> /\ batch' = NoBatch
    /\ r_opt' = <<>> /\ target_Q' = <<>>
    /\ start' = NoStart /\ used' = NoUsed /\ trace' = <<>>
    /\ UNCHANGED <<optim_lr, status, agent, actor, alpha, reward, beta, requires_grad>>
    /\ UNCHANGED <<q_critic, replay_buffer, added>>
    /\ UNCHANGED <<userVars, notAgentVars>>

TrainSteps ==
    \/ TrainRNet
    \/ TrainRaise
    \/ TrainDual
    \/ TrainCritic
    \/ TrainFreeze
    \/ TrainActor
    \/ TrainUnfreeze
    \/ TrainAlpha
    \/ TrainTarget

-----------------------------------------------------------------------------
(* The agent called by any user: replay_buffer.add, select_action, train,  *)
(* save and load in any order, one call at a time.                         *)

\* Calls made on one agent.
MaxOps == 4

\* agent.replay_buffer.add(...)
AgentAdd ==
    /\ status = "ready" /\ tpc = "idle" /\ n_ops < MaxOps
    /\ \E t \in Transitions :
          /\ replay_buffer' = ReplayBuffer_add(replay_buffer, t)
          /\ added' = Append(added, t)
    /\ n_ops' = n_ops + 1
    /\ UNCHANGED <<ind, batch, disk, action_agent>>
    /\ UNCHANGED <<netVars, criticVars, trainVars, notAgentVars>>

\* select_action(state, deterministic): the actor is only read.
AgentSelect ==
    /\ status = "ready" /\ tpc = "idle" /\ n_ops < MaxOps
    /\ action_agent' = [src |-> "policy", actor |-> actor]
    /\ n_ops' = n_ops + 1
    /\ UNCHANGED <<disk, netVars, criticVars, bufVars, trainVars, notAgentVars>>

\* train()
AgentTrain ==
    /\ n_ops < MaxOps
    /\ TrainBegin
    /\ n_ops' = n_ops + 1
    /\ UNCHANGED <<disk, action_agent, notAgentVars>>

\* save(EnvName, timestep): the state_dicts of actor and q_critic
AgentSave ==
    /\ status = "ready" /\ tpc = "idle" /\ n_ops < MaxOps
    /\ disk' = [saved |-> TRUE, actor |-> actor, q_critic |-> q_critic]
    /\ n_ops' = n_ops + 1
    /\ UNCHANGED <<action_agent, netVars, criticVars, bufVars, trainVars, notAgentVars>>

\* load(EnvName, timestep): torch.load raises when the files are missing.
AgentLoad ==
    /\ status = "ready" /\ tpc = "idle" /\ n_ops < MaxOps
    /\ disk.saved
    /\ actor' = disk.actor
    /\ q_critic' = disk.q_critic
    /\ n_ops' = n_ops + 1
    /\ UNCHANGED <<optim_lr, status, agent, alpha, reward, beta, steps, requires_grad>>
    /\ UNCHANGED <<q_critic_target, disk, action_agent>>
    /\ UNCHANGED <<bufVars, trainVars, notAgentVars>>

AgentNext ==
    \/ InitDelta
    \/ InitZeroDivision
    \/ InitAssertion
    \/ InitNetworks
    \/ AgentAdd
    \/ AgentSelect
    \/ AgentTrain
    \/ AgentSave
    \/ AgentLoad
    \/ TrainSteps

-----------------------------------------------------------------------------
(* The order of the updates of train()                                     *)

\* The updates of one train() call before the soft update, in order.
Updates ==
    (IF agent.robust THEN <<"sample", "reward", "dual">> ELSE <<"sample">>)
    \o <<"critic", "actor">>
    \o (IF agent.adaptive_alpha THEN <<"alpha">> ELSE <<>>)

IsPrefix(s, t) == Len(s) <= Len(t) /\ \A i \in 1..Len(s) : s[i] = t[i]

\* The optimizer steps a whole train() call adds to those at its start.
StepsAfter(s) ==
    [actor |-> s.actor + 1,
     q_critic |-> s.q_critic + 1,
     alpha |-> s.alpha + (IF agent.adaptive_alpha THEN 1 ELSE 0),
     reward |-> s.reward + (IF agent.robust THEN 1 ELSE 0),
     beta |-> s.beta + (IF agent.robust THEN DualSteps ELSE 0),
     target |-> s.target + 1]

C4_InOrder == tpc # "idle" => IsPrefix(trace, Updates)

C4_Return ==
    (tpc = "target" /\ tpc' = "idle") =>
        /\ trace = Updates
        /\ steps' = StepsAfter(start.steps)
        /\ used.target_actor = start.steps.actor
        /\ used.aloss_critic = start.steps.q_critic + 1

\* C4: while train() runs, the updates done so far are a prefix of
\* (robust: reward regression, dual optimisation,) critic, actor, (adaptive:
\* alpha); when it returns, after the soft update, all of them were done, each
\* optimizer stepped exactly as often as one call does (reward 1, beta 10,
\* critic 1, actor 1, alpha 1, target 1), the Bellman target was computed
\* from the actor as it was when the call began, and the actor loss from
\* the critic after this call's critic step.
C4_UpdateOrder == []C4_InOrder /\ [][C4_Return]_vars

C4_Witness ==
    /\ tpc = "target"
    /\ agent.robust /\ agent.adaptive_alpha
    /\ trace = <<"sample", "reward", "dual", "critic", "actor", "alpha">>
    /\ start.steps.actor >= 1
    /\ used.target_actor = start.steps.actor
    /\ used.aloss_critic = start.steps.q_critic + 1

-----------------------------------------------------------------------------
(* The target critic                                                       *)

C5_Construction ==
    (status = "delta" /\ status' = "ready") => q_critic_target' = q_critic'

C5_Frame ==
    (status = "ready" /\ q_critic_target' # q_critic_target) =>
        (tpc = "target" /\ tpc' = "idle")

C5_Polyak ==
    (tpc = "target" /\ tpc' = "idle") =>
        /\ q_critic = used.critic_post
        /\ q_critic_target = start.q_critic_target
        /\ q_critic_target' =
              FAdd(FMul(FromRat(5, 1000), q_critic),
                   FMul(FromRat(995, 1000), q_critic_target))
        /\ steps'.target = start.steps.target + 1

C5_OncePerCall == steps'.target # steps.target => (tpc = "target" /\ tpc' = "idle")

\* C5: __init__ leaves the target critic equal to the online critic; after
\* that its parameters change only in the step that ends train(), which
\* happens once per call and sets them to 0.005 * online + 0.995 * target_old,
\* online being the critic after this call's gradient step; the gradient
\* steps, replay_buffer.add, select_action, save and load leave it alone.
C5_TargetCritic == [][C5_Construction /\ C5_Frame /\ C5_Polyak /\ C5_OncePerCall]_vars

\* The target has moved away from the online critic, and a load has just
\* replaced the online critic: the target is still what train() left.
C5_Witness ==
    /\ status = "ready" /\ tpc = "idle"
    /\ steps.target >= 1
    /\ disk.saved
    /\ q_critic = disk.q_critic
    /\ q_critic_target # q_critic
    /\ q_critic_target # disk.q_critic

-----------------------------------------------------------------------------
(* The radius delta of the robust mode                                     *)

Aborted == status \in {"ZeroDivisionError", "AssertionError"}

NothingCreated ==
    /\ actor = None /\ alpha = None /\ reward = None /\ beta = None
    /\ q_critic = NoNet /\ q_critic_target = NoNet
    /\ replay_buffer = None

C7_Inv ==
    /\ status \in {"new", "delta", "ZeroDivisionError", "AssertionError"} => NothingCreated
    /\ (status \in {"delta", "ready"} /\ agent.robust) =>
          /\ agent.delta # NoDelta
          /\ Mant(agent.delta) >= 0
          /\ agent.train_std = agent.eval_std => agent.delta = FZero
    /\ Aborted => agent.delta = NoDelta

C7_Step ==
    /\ status \in {"delta", "ready"} => agent'.delta = agent.delta
    /\ Aborted => UNCHANGED vars
    /\ (/\ status = "new" /\ agent.robust
        /\ Mant(Square(agent.train_std)) # 0 /\ Mant(Square(agent.eval_std)) # 0
        /\ Mant(Delta(Square(agent.train_std), Square(agent.eval_std))) < 0)
       => status' = "AssertionError"

\* C7: a robust agent has its delta before any network, optimizer or buffer
\* exists; a negative computed delta ends __init__ with nothing created and
\* no operation possible afterwards; so a constructed robust agent has
\* delta >= 0, and delta = 0 for equal standard deviations; and once
\* computed, delta is never changed by train, add, select_action, save or load.
C7_Delta == []C7_Inv /\ [][C7_Step]_vars

C7_Witness ==
    /\ status = "AssertionError"
    /\ agent.robust
    /\ agent.train_std # agent.eval_std
    /\ Mant(Delta(Square(agent.train_std), Square(agent.eval_std))) < 0
    /\ NothingCreated

-----------------------------------------------------------------------------
(* The reward of the Bellman target                                        *)

C11_Robust ==
    (status = "ready" /\ agent.robust) =>
        \A k \in DOMAIN target_Q :
            /\ target_Q[k].r.src = "r_opt"
            /\ target_Q[k].r = r_opt[k]
            /\ target_Q[k].r.reward = steps.reward
            /\ steps.reward = start.steps.reward + 1
            /\ target_Q[k].r.beta = start.steps.beta + DualSteps
            /\ target_Q[k].r.delta = agent.delta

C11_NonRobust ==
    ~agent.robust =>
        /\ reward = None /\ beta = None
        /\ steps.reward = 0 /\ steps.beta = 0
        /\ r_opt = <<>>
        /\ tpc \notin {"r_net", "dual"}
        /\ \A k \in DOMAIN target_Q :
              target_Q[k].r = [src |-> "r", value |-> batch.r[k]]

C11_Fixed == status \in {"delta", "ready"} => agent'.robust = agent.robust

\* C11: whenever train() of a robust agent has built its target, the
\* reward in it is the dual estimate r_opt of this call, made from the
\* reward model after this call's regression step, the dual variable after
\* this call's ten steps and delta, and never the sampled r; in a
\* non-robust agent it is the sampled r, there is no reward model and no
\* dual variable, neither is ever stepped and no r_opt is ever made; and
\* no operation changes the robust flag.
C11_RewardSource == [](C11_Robust /\ C11_NonRobust) /\ [][C11_Fixed]_vars

\* The second train() call of a robust agent has built its target.
C11_Witness ==
    /\ status = "ready" /\ agent.robust
    /\ tpc = "freeze"
    /\ start.steps.reward >= 1
    /\ target_Q # <<>>
    /\ \A k \in DOMAIN target_Q : target_Q[k].r.src = "r_opt"

-----------------------------------------------------------------------------
(* The requires_grad flags of the critics                                  *)

C12_Inv ==
    status \in {"ready", "TypeError"} =>
        /\ requires_grad.q_critic_target = FALSE
        /\ requires_grad.q_critic = FALSE <=> tpc \in {"actor", "unfreeze"}

C12_Step ==
    /\ (tpc = "idle" /\ tpc' # "idle") => requires_grad.q_critic
    /\ (tpc = "target" /\ tpc' = "idle") => (requires_grad.q_critic /\ requires_grad'.q_critic)
    /\ (status = "ready" /\ steps'.q_critic # steps.q_critic) =>
          (tpc = "q_net" /\ requires_grad.q_critic /\ requires_grad'.q_critic)
    /\ (tpc = "q_net" /\ tpc' # "q_net") => steps'.q_critic = steps.q_critic + 1
    /\ (status = "ready" /\ steps'.actor # steps.actor) =>
          /\ tpc = "actor"
          /\ ~requires_grad.q_critic /\ ~requires_grad'.q_critic
          /\ q_critic' = q_critic
          /\ steps'.q_critic = steps.q_critic
    /\ (tpc = "actor" /\ tpc' # "actor") => steps'.actor = steps.actor + 1

\* C12: the target critic never requires gradients; the online critic
\* requires none exactly while train() stands between the end of its
\* critic step and the end of its actor step, so it is trainable when
\* train() begins, during the critic's gradient step and when train()
\* returns, and frozen during the actor's gradient step, which leaves the
\* critic's parameters as they are.
C12_GradFlags == []C12_Inv /\ [][C12_Step]_vars

\* In a second train() call, the actor has just been stepped and the
\* critic is still frozen.
C12_Witness ==
    /\ status = "ready"
    /\ tpc = "unfreeze"
    /\ start.steps.target >= 1
    /\ steps.actor = start.steps.actor + 1
    /\ ~requires_grad.q_critic
    /\ ~requires_grad.q_critic_target

-----------------------------------------------------------------------------
(* main: the training loop                                                 *)

\* Steps per episode before the time limit truncates it (env._max_episode_steps).
MaxEpisodeSteps == 2

\* Max_train_steps beyond the warm-up.
ExtraSteps == 2

\* update_every
UpdateEvery == 2

\* The environment terminates an episode only in the first DwSteps steps.
DwSteps == 2

\* opt.rtype
Rtype(EnvIdex) == IF EnvIdex \in {0, 1, 2, 3, 5} THEN "continuous" ELSE "discrete"

WarmupSteps_One(max_e_steps) == max_e_steps

\* 10 * opt.max_e_steps
WarmupSteps(max_e_steps) == 10 * max_e_steps

\* opt after main has set max_e_steps and rtype: LunarLander (EnvIdex 1)
\* and BipedalWalker (EnvIdex 4).
Opts ==
    {[EnvIdex |-> e, max_e_steps |-> m, update_every |-> UpdateEvery,
      Max_train_steps |-> 10 * m + ExtraSteps, robust |-> rb]
        : e \in {1}, m \in 1..MaxEpisodeSteps, rb \in BOOLEAN}
    \cup
    {[EnvIdex |-> 4, max_e_steps |-> 1, update_every |-> UpdateEvery,
      Max_train_steps |-> 10 + ExtraSteps, robust |-> TRUE]}

\* Reward_adapter(r, EnvIdex)
Reward_adapter(r, EnvIdex) ==
    IF EnvIdex = 0 THEN FDiv(FAdd(r, FromInt(8)), FromInt(8))
    ELSE IF EnvIdex = 1 THEN (IF FLe(r, FromInt(-100)) THEN FromInt(-10) ELSE r)
    ELSE IF EnvIdex = 4 \/ EnvIdex = 5 THEN (IF FLe(r, FromInt(-100)) THEN FromInt(-1) ELSE r)
    ELSE r

\* The reward of env.step: -100 for the step that terminates the episode.
EnvReward(dw) == IF dw THEN FromInt(-100) ELSE FromInt(1)

Transition_Done(s, a, r, s_next, dw, tr) ==
    [s |-> s, a |-> a, r |-> r, s_next |-> s_next, dw |-> (dw \/ tr)]

\* The arguments of agent.replay_buffer.add(state, action_agent, reward,
\* next_state, dw), of the values env.step returned.
Transition(s, a, r, s_next, dw, tr) ==
    [s |-> s, a |-> a, r |-> r, s_next |-> s_next, dw |-> dw]

MainIdle ==
    /\ opt = None /\ mpc = None /\ total_steps = None /\ total_episode = None
    /\ done = None /\ state = None /\ elapsed_steps = None /\ upd_i = None
    /\ action_env = None /\ steplog = None

\* main up to the construction of the agent.
MainNew ==
    /\ opt \in Opts
    /\ agent = Kwargs(opt.robust, TRUE, <<30, 10>>, Rtype(opt.EnvIdex), AgentBatch)
    /\ Unconstructed
    /\ mpc = "construct"
    /\ total_steps = 0 /\ total_episode = 0
    /\ done = FALSE /\ state = 0 /\ elapsed_steps = 0 /\ upd_i = 0
    /\ action_env = [src |-> "none"]
    /\ steplog = <<>>

\* Loadmodel and render are off: total_steps = 0, total_episode = 0
MainStart ==
    /\ mpc = "construct"
    /\ status = "ready"
    /\ total_steps' = 0
    /\ total_episode' = 0
    /\ mpc' = "loop"
    /\ UNCHANGED <<opt, done, state, elapsed_steps, upd_i, action_env, steplog>>
    /\ UNCHANGED <<adapterVars, criticVars, softVars, bufVars, netVars, trainVars, userVars>>

\* while total_steps < opt.Max_train_steps: env.reset, done = False
MainReset ==
    /\ mpc = "loop"
    /\ total_steps < opt.Max_train_steps
    /\ state' = 0
    /\ elapsed_steps' = 0
    /\ total_episode' = total_episode + 1
    /\ done' = FALSE
    /\ mpc' = "act"
    /\ UNCHANGED <<opt, total_steps, upd_i, action_env, steplog>>
    /\ UNCHANGED <<adapterVars, criticVars, softVars, bufVars, netVars, trainVars, userVars>>

\* The loop is left: the evaluation of utils.evaluate_policy follows.
MainEnd ==
    /\ mpc = "loop"
    /\ total_steps >= opt.Max_train_steps
    /\ mpc' = "eval"
    /\ UNCHANGED <<opt, total_steps, total_episode, done, state, elapsed_steps, upd_i,
                   action_env, steplog>>
    /\ UNCHANGED <<adapterVars, criticVars, softVars, bufVars, netVars, trainVars, userVars>>

\* while not done, in the warm-up: env.action_space.sample() and
\* Action_adapter_reverse
MainExplore ==
    /\ mpc = "act"
    /\ ~done
    /\ total_steps < WarmupSteps(opt.max_e_steps)
    /\ action_env' = [src |-> "space"]
    /\ action_agent' = [src |-> "reverse"]
    /\ mpc' = "step"
    /\ UNCHANGED <<opt, total_steps, total_episode, done, state, elapsed_steps, upd_i, steplog>>
    /\ UNCHANGED <<disk, n_ops>>
    /\ UNCHANGED <<adapterVars, criticVars, softVars, bufVars, netVars, trainVars>>

\* while not done, after the warm-up: agent.select_action and Action_adapter
MainPolicy ==
    /\ mpc = "act"
    /\ ~done
    /\ ~(total_steps < WarmupSteps(opt.max_e_steps))
    /\ action_agent' = [src |-> "policy", actor |-> actor]
    /\ action_env' = [src |-> "adapter"]
    /\ mpc' = "step"
    /\ UNCHANGED <<opt, total_steps, total_episode, done, state, elapsed_steps, upd_i, steplog>>
    /\ UNCHANGED <<disk, n_ops>>
    /\ UNCHANGED <<adapterVars, criticVars, softVars, bufVars, netVars, trainVars>>

\* The episode is over: back to the outer loop.
MainEpisodeEnd ==
    /\ mpc = "act"
    /\ done
    /\ mpc' = "loop"
    /\ UNCHANGED <<opt, total_steps, total_episode, done, state, elapsed_steps, upd_i,
                   action_env, steplog>>
    /\ UNCHANGED <<adapterVars, criticVars, softVars, bufVars, netVars, trainVars, userVars>>

\* env.step, Reward_adapter, done = (dw or tr), replay_buffer.add,
\* total_steps += 1, and the test that starts a block of train() calls.
MainStep ==
    /\ mpc = "step"
    /\ \E dw \in (IF total_steps < DwSteps THEN BOOLEAN ELSE {FALSE}) :
          LET tr == elapsed_steps + 1 >= opt.max_e_steps
              next_state == state + 1
              r == Reward_adapter(EnvReward(dw), opt.EnvIdex)
              t == Transition(state, action_agent, r, next_state, dw, tr)
          IN  /\ done' = (dw \/ tr)
              /\ replay_buffer' = ReplayBuffer_add(replay_buffer, t)
              /\ added' = Append(added, t)
              /\ steplog' = Append(steplog, [dw |-> dw, tr |-> tr])
              /\ state' = next_state
    /\ elapsed_steps' = elapsed_steps + 1
    /\ total_steps' = total_steps + 1
    /\ upd_i' = 0
    /\ mpc' = IF /\ total_steps' >= WarmupSteps(opt.max_e_steps)
                 /\ total_steps' % opt.update_every = 0
              THEN "train" ELSE "act"
    /\ UNCHANGED <<opt, total_episode, action_env, ind, batch>>
    /\ UNCHANGED <<adapterVars, criticVars, softVars, netVars, trainVars, userVars>>

\* for _ in range(opt.update_every): agent.train()
MainTrain ==
    /\ mpc = "train"
    /\ upd_i < opt.update_every
    /\ TrainBegin
    /\ upd_i' = upd_i + 1
    /\ UNCHANGED <<opt, mpc, total_steps, total_episode, done, state, elapsed_steps,
                   action_env, steplog>>
    /\ UNCHANGED <<adapterVars, softVars, userVars>>

\* agent.a_lr *= 0.9, agent.c_lr *= 0.9
MainDecay ==
    /\ mpc = "train"
    /\ upd_i = opt.update_every
    /\ tpc = "idle"
    /\ status = "ready"
    /\ agent' = [agent EXCEPT !.a_lr = FMul(@, FromRat(9, 10)),
                              !.c_lr = FMul(@, FromRat(9, 10))]
    /\ mpc' = "act"
    /\ UNCHANGED <<opt, total_steps, total_episode, done, state, elapsed_steps, upd_i,
                   action_env, steplog>>
    /\ UNCHANGED <<optim_lr, status, actor, alpha, reward, beta, steps, requires_grad>>
    /\ UNCHANGED <<adapterVars, criticVars, softVars, bufVars, trainVars, userVars>>

MainNext ==
    \/ InitDelta
    \/ InitNetworks
    \/ MainStart
    \/ MainReset
    \/ MainEnd
    \/ MainExplore
    \/ MainPolicy
    \/ MainEpisodeEnd
    \/ MainStep
    \/ MainTrain
    \/ MainDecay
    \/ TrainSteps

-----------------------------------------------------------------------------
(* The warm-up of the driver                                               *)

C6_TrainCall ==
    (tpc = "idle" /\ tpc' # "idle") =>
        /\ replay_buffer.size >= 1
        /\ total_steps >= 10 * opt.max_e_steps
        /\ replay_buffer.size = total_steps
        /\ Len(steplog) = total_steps

C6_Explore ==
    (mpc = "act" /\ mpc' = "step" /\ total_steps < 10 * opt.max_e_steps) =>
        /\ action_env'.src = "space"
        /\ action_agent'.src = "reverse"

C6_NoQuery ==
    total_steps < 10 * opt.max_e_steps =>
        /\ action_agent.src # "policy"
        /\ steps = NoSteps
        /\ tpc = "idle"

-----------------------------------------------------------------------------
(* The stored flag and the bootstrap term                                  *)

C8_Stored ==
    status = "ready" =>
        /\ replay_buffer.size = Len(steplog)
        /\ \A i \in 0..(replay_buffer.size - 1) :
              Row(replay_buffer.dw, i, FALSE) = steplog[i + 1].dw

C8_Mask ==
    \A k \in DOMAIN target_Q :
        /\ batch.dw[k] = steplog[ind[k] + 1].dw
        /\ target_Q[k].not_dw = ~batch.dw[k]
        /\ (steplog[ind[k] + 1].tr /\ ~steplog[ind[k] + 1].dw) => target_Q[k].not_dw

\* C8: the flag stored in row i of the buffer is the terminated flag
\* env.step returned for step i, whatever its truncated flag; and the factor
\* of the bootstrap term of batch element k is 0 exactly if the flag stored
\* with the sampled transition is true, so it is 1 for a transition that
\* was truncated but not terminated.
C8_AbsorbingMask == C8_Stored /\ C8_Mask

\* A batch element that ended its episode by truncation only, in a buffer
\* that also holds a terminated transition.
C8_Witness ==
    /\ tpc = "actor"
    /\ \E k \in DOMAIN target_Q :
          /\ steplog[ind[k] + 1] = [dw |-> FALSE, tr |-> TRUE]
          /\ target_Q[k].not_dw
    /\ \E i \in 1..Len(steplog) : steplog[i].dw /\ ~steplog[i].tr

-----------------------------------------------------------------------------
(* The learning-rate decay of the driver                                   *)

\* The learning rates main passes to __init__.
C13_a_lr == FromRat(3, 100000)

C13_c_lr == FromRat(1, 10000)

C13_Decay ==
    (mpc = "train" /\ mpc' = "act") =>
        /\ upd_i = opt.update_every
        /\ tpc = "idle"
        /\ agent'.a_lr = FMul(agent.a_lr, FromRat(9, 10))
        /\ agent'.c_lr = FMul(agent.c_lr, FromRat(9, 10))
        /\ agent' = [agent EXCEPT !.a_lr = agent'.a_lr, !.c_lr = agent'.c_lr]
        /\ UNCHANGED <<optim_lr, actor, alpha, reward, beta, steps, requires_grad,
                       q_critic, q_critic_target, replay_buffer>>

C13_Optim ==
    status = "ready" =>
        /\ optim_lr.actor_optimizer = C13_a_lr
        /\ optim_lr.q_critic_optimizer = C13_c_lr
        /\ optim_lr.alpha_optim = C13_c_lr

C13_Used ==
    /\ tpc \in {"freeze", "actor", "unfreeze", "alpha", "target"} => used.critic_lr = C13_c_lr
    /\ tpc \in {"unfreeze", "alpha", "target"} => used.actor_lr = C13_a_lr
    /\ tpc = "target" => used.alpha_lr = C13_c_lr

\* C13: the decay after a block of update_every train() calls multiplies
\* the attributes a_lr and c_lr of the agent by 0.9 and changes nothing
\* else; the optimizers of the actor, the critic and alpha keep the
\* learning rates they were created with, and every step of theirs in
\* every train() call of the run is made with those.
C13_LrDecay == [](C13_Optim /\ C13_Used) /\ [][C13_Decay]_vars

\* A train() call after a decay: the attributes have moved away from
\* what the optimizers hold and step with.
C13_Witness ==
    /\ mpc = "train" /\ tpc = "target"
    /\ agent.a_lr = FMul(C13_a_lr, FromRat(9, 10))
    /\ agent.c_lr = FMul(C13_c_lr, FromRat(9, 10))
    /\ agent.a_lr # optim_lr.actor_optimizer
    /\ used.actor_lr = C13_a_lr
    /\ used.critic_lr = C13_c_lr
    /\ used.alpha_lr = C13_c_lr

-----------------------------------------------------------------------------
CriticIdle == q_critic = None /\ q_critic_target = None

AgentIdle ==
    /\ status = None /\ agent = None /\ actor = None /\ alpha = None
    /\ reward = None /\ beta = None /\ steps = None /\ requires_grad = None
    /\ optim_lr = None
    /\ tpc = None /\ r_opt = None /\ target_Q = None /\ start = None
    /\ used = None /\ trace = None
    /\ disk = None /\ action_agent = None /\ n_ops = None

InitAdapter == AdapterInit /\ CriticIdle /\ SoftIdle /\ BufIdle /\ AgentIdle /\ MainIdle

SpecAdapter == InitAdapter /\ [][AdapterNext]_vars

InitSoft == SoftInit /\ AdapterIdle /\ BufIdle /\ AgentIdle /\ MainIdle

SpecSoft == InitSoft /\ [][SoftNext]_vars

InitBuffer == BufInit /\ AdapterIdle /\ CriticIdle /\ SoftIdle /\ AgentIdle /\ MainIdle

SpecBuffer == InitBuffer /\ [][BufNext]_vars

InitAgent == AgentNew /\ AdapterIdle /\ SoftIdle /\ MainIdle

SpecAgent == InitAgent /\ [][AgentNext]_vars

InitMain == MainNew /\ AdapterIdle /\ SoftIdle

SpecMain == InitMain /\ [][MainNext]_vars

=============================================================================
